---- MODULE Spec2Model ----
(***************************************************************************)
(* Model of process-spy's monitoring engine, core/process_monitor.py:      *)
(* the ProcessMonitor object (lifecycle flag, cancellation Event, cache,   *)
(* callback list), the caller of start_monitoring()/stop_monitoring(),     *)
(* and the polling threads running _monitor_loop().                        *)
(***************************************************************************)
EXTENDS Integers, Sequences, FiniteSets, TLC

\* Number of thread slots: polling threads that can be alive at once.
MaxThreads == 2
\* Longest callback list the model lets add_callback() build.
MaxCallbacks == 2

Threads == 1..MaxThreads
\* Process identifiers the host can report.
Pids == {1, 2, 3}
\* Handlers a caller can register: "A" raises whenever it is called,
\* "B" returns normally.
Handlers == {"A", "B"}
Raising == {"A"}
\* monitor_thread before the first start_monitoring().
NoThread == 0
\* A host attribute that could not be read (psutil's ad_value).
None == "None"
\* Names the host reports for a process.
HostNames == {None, "a", "b"}
\* What can happen while one process is queried.
Faults == {"ok", "NoSuchProcess", "AccessDenied"}

VARIABLES
    monitoring,      \* self.monitoring
    monitor_thread,  \* self.monitor_thread: a thread, or NoThread
    stop_event,      \* self.stop_event: TRUE when set
    process_cache,   \* self.process_cache: pid -> ProcessInfo
    callbacks,       \* self.callbacks: the list of handlers
    ctl,             \* where the caller of start/stop is: "idle" or "join"
    pc,              \* where each polling thread is in _monitor_loop; "exit": no live thread
    processes,       \* _monitor_loop's local `processes`, per thread
    it,              \* position of the list iterator of `for callback in ...`
    notified,        \* history: <<handler, snapshot>> calls of the current cycle
    cancelled,       \* history: stop_monitoring() has signalled this thread
    op,              \* the lifecycle call the last step made, or "-"
    log,             \* the lines the last step wrote to the logger
    call             \* the query, kill or save call the last step made, or NoCall

vars == <<monitoring, monitor_thread, stop_event, process_cache, callbacks,
          ctl, pc, processes, it, notified, cancelled, op, log, call>>

\* No get_processes, get_process_by_name, kill_process or save_snapshot call
\* in this step.  A call is recorded with its argument, with what the host
\* answered during it (host), with the host operations it performed (did),
\* with what it left in the file (wrote), and with what it gave back to its caller (ret): <<"return", value>> or
\* <<"raise", exception>>.
NoCall ==
    [fn |-> "-", arg |-> << >>, host |-> << >>, did |-> << >>,
     wrote |-> << >>, ret |-> << >>]

monitor == <<monitoring, monitor_thread, stop_event, process_cache, callbacks>>
locals == <<pc, processes, it, notified>>

----------------------------------------------------------------------------
\* Helpers

RECURSIVE SetToSeq(_)
\* The elements of a set of integers, in ascending order.
SetToSeq(S) ==
    IF S = {} THEN <<>>
    ELSE LET m == CHOOSE x \in S : \A y \in S : x <= y
         IN <<m>> \o SetToSeq(S \ {m})

\* The listings psutil.process_iter can yield: one entry per process,
\* in ascending pid order, pids pairwise distinct.
HostEntries == [pid : Pids, name : HostNames, fault : Faults]
HostListings ==
    UNION {{l \in [1..n -> HostEntries] :
               \A i \in 1..n : \A j \in 1..n : i < j => l[i].pid < l[j].pid}
           : n \in 0..Cardinality(Pids)}

\* The listings of a host that only ever runs process 1, named "a".
NarrowListings ==
    {l \in HostListings : \A i \in 1..Len(l) : l[i].pid = 1 /\ l[i].name = "a"}

\* cmdline = None, written as a list so that it compares with lists.
NoCmdline == <<None>>
\* The values Python's `or` takes for false in each attribute: None and the
\* empty value of the attribute's type.  Floats are written as literals.
Falsy ==
    [name |-> {None, ""}, cpu_percent |-> {None, "0.0"},
     memory_percent |-> {None, "0.0"}, status |-> {None, ""},
     create_time |-> {None, "0.0"}, cmdline |-> {NoCmdline, << >>}]
\* The right-hand sides of `or` in get_processes.
Default ==
    [name |-> "Unknown", cpu_percent |-> "0.0", memory_percent |-> "0.0",
     status |-> "unknown", create_time |-> "0.0", cmdline |-> << >>]

\* An `or` that keeps whatever the host reported.
Or_keep(attr, value) == value

\* info[attr] or <default>
Or(attr, value) == IF value \in Falsy[attr] THEN Default[attr] ELSE value

\* ProcessInfo(pid=info['pid'], name=info['name'] or 'Unknown', ...).  A
\* listing that carries only pid and name stands for processes whose other
\* attributes are not looked at.
ProcessInfo(info) ==
    IF "status" \in DOMAIN info
    THEN [pid |-> info.pid,
          name |-> Or("name", info.name),
          cpu_percent |-> Or("cpu_percent", info.cpu_percent),
          memory_percent |-> Or("memory_percent", info.memory_percent),
          status |-> Or("status", info.status),
          create_time |-> Or("create_time", info.create_time),
          cmdline |-> Or("cmdline", info.cmdline)]
    ELSE [pid |-> info.pid, name |-> Or("name", info.name)]

RECURSIVE get_processes_abort(_)
\* An enumeration that the first faulty process ends.
get_processes_abort(listing) ==
    IF listing = <<>> \/ Head(listing).fault # "ok" THEN <<>>
    ELSE <<ProcessInfo(Head(listing))>> \o get_processes_abort(Tail(listing))

RECURSIVE get_processes(_)
\* get_processes(): one ProcessInfo per listed process; a process whose
\* query raises is skipped.
get_processes(listing) ==
    IF listing = <<>> THEN <<>>
    ELSE LET info == Head(listing)
             rest == get_processes(Tail(listing))
         IN IF info.fault # "ok" THEN rest
            ELSE <<ProcessInfo(info)>> \o rest

\* Host records with every attribute, for one process: each attribute is
\* missing, empty or set.
FullEntries ==
    [pid : {1}, name : {None, "", "a"}, cpu_percent : {None, "0.0", "1.5"},
     memory_percent : {None, "2.5"}, status : {None, "", "running"},
     create_time : {None, "17.0"}, cmdline : {NoCmdline, << >>, <<"x">>},
     fault : {"ok"}]
FullListings == {<<e>> : e \in FullEntries}
\* Listings of a host that runs processes 1 and 2 at most.
TwoListings == {l \in HostListings : \A i \in 1..Len(l) : l[i].pid <= 2}

\* The characters of the strings used as process names and search terms.
Chars(str) ==
    CASE str = "" -> << >>
      [] str = "a" -> <<"a">>
      [] str = "A" -> <<"A">>
      [] str = "b" -> <<"b">>
      [] str = "ab" -> <<"a", "b">>
      [] str = "NK" -> <<"N", "K">>
      [] str = "Unknown" -> <<"U", "n", "k", "n", "o", "w", "n">>
\* Search terms a caller passes to get_process_by_name.
Terms == {"", "a", "A", "ab", "NK"}

\* str.lower(), one character at a time.
lower(chars) ==
    [i \in 1..Len(chars) |->
        CASE chars[i] = "A" -> "a"
          [] chars[i] = "K" -> "k"
          [] chars[i] = "N" -> "n"
          [] chars[i] = "U" -> "u"
          [] OTHER -> chars[i]]

RECURSIVE In(_, _)
\* sub in chars: sub starts chars, or is in chars without its first character.
In(sub, chars) ==
    IF Len(sub) > Len(chars) THEN FALSE
    ELSE IF SubSeq(chars, 1, Len(sub)) = sub THEN TRUE
    ELSE In(sub, Tail(chars))

\* A search that compares the characters as they are.
get_process_by_name_exact(listing, name) ==
    LET Test(p) == In(Chars(name), Chars(p.name))
    IN SelectSeq(get_processes(listing), Test)

\* get_process_by_name(name)
get_process_by_name(listing, name) ==
    LET Test(p) == In(lower(Chars(name)), lower(Chars(p.name)))
    IN SelectSeq(get_processes(listing), Test)

\* {p.pid: p for p in current_processes}: a later record replaces an earlier
\* one with the same pid.
PidMap(current_processes) ==
    LET ids == {current_processes[i].pid : i \in 1..Len(current_processes)}
    IN [p \in ids |->
          LET last == CHOOSE i \in 1..Len(current_processes) :
                         /\ current_processes[i].pid = p
                         /\ \A j \in 1..Len(current_processes) :
                               current_processes[j].pid = p => j <= i
          IN current_processes[last]]

\* The log lines of _detect_changes: one per new pid, then one per dead pid.
NewLines(cache, current_pids) ==
    LET new_pids == SetToSeq(DOMAIN current_pids \ DOMAIN cache)
    IN [i \in 1..Len(new_pids) |->
          <<"New process", current_pids[new_pids[i]].name, current_pids[new_pids[i]].pid>>]

\* A diff that reports every cached pid as terminated.
DeadLines_all(cache, current_pids) ==
    LET dead_pids == SetToSeq(DOMAIN cache)
    IN [i \in 1..Len(dead_pids) |->
          <<"Process terminated", cache[dead_pids[i]].name, cache[dead_pids[i]].pid>>]

DeadLines(cache, current_pids) ==
    LET dead_pids == SetToSeq(DOMAIN cache \ DOMAIN current_pids)
    IN [i \in 1..Len(dead_pids) |->
          <<"Process terminated", cache[dead_pids[i]].name, cache[dead_pids[i]].pid>>]

Alive(t) == pc[t] # "exit"

----------------------------------------------------------------------------
Init ==
    /\ monitoring = FALSE
    /\ monitor_thread = NoThread
    /\ stop_event = FALSE
    /\ process_cache = << >>
    /\ callbacks = << >>
    /\ ctl = "idle"
    /\ pc = [t \in Threads |-> "exit"]
    /\ processes = [t \in Threads |-> << >>]
    /\ it = [t \in Threads |-> 0]
    /\ notified = [t \in Threads |-> << >>]
    /\ cancelled = [t \in Threads |-> FALSE]
    /\ op = "init"
    /\ log = << >>
    /\ call = NoCall

----------------------------------------------------------------------------
\* The callback list

add_callback ==
    /\ Len(callbacks) < MaxCallbacks
    /\ \E callback \in Handlers : callbacks' = Append(callbacks, callback)
    /\ op' = "-"
    /\ call' = NoCall
    /\ log' = << >>
    /\ UNCHANGED <<monitoring, monitor_thread, stop_event, process_cache,
                   ctl, locals, cancelled>>

\* list.remove: drops the first occurrence.
Remove(list, x) ==
    LET first == CHOOSE i \in 1..Len(list) :
                    list[i] = x /\ \A j \in 1..(i - 1) : list[j] # x
    IN SubSeq(list, 1, first - 1) \o SubSeq(list, first + 1, Len(list))

remove_callback ==
    /\ \E callback \in Handlers :
          callbacks' = IF \E i \in 1..Len(callbacks) : callbacks[i] = callback
                       THEN Remove(callbacks, callback)
                       ELSE callbacks
    /\ op' = "-"
    /\ call' = NoCall
    /\ log' = << >>
    /\ UNCHANGED <<monitoring, monitor_thread, stop_event, process_cache,
                   ctl, locals, cancelled>>

----------------------------------------------------------------------------
\* Lifecycle

\* The slot a new Thread object takes: the lowest one holding no live thread.
FreeSlot == CHOOSE t \in Threads : ~Alive(t) /\ \A u \in Threads : ~Alive(u) => t <= u

\* start_monitoring() without its `if self.monitoring: return`.
start_monitoring_unguarded ==
    /\ ctl = "idle"
    /\ op' = "start_monitoring"
    /\ call' = NoCall
    /\ \E t \in Threads : ~Alive(t)
    /\ monitoring' = TRUE
    /\ stop_event' = FALSE
    /\ monitor_thread' = FreeSlot
    /\ pc' = [pc EXCEPT ![FreeSlot] = "while"]
    /\ processes' = [processes EXCEPT ![FreeSlot] = << >>]
    /\ it' = [it EXCEPT ![FreeSlot] = 0]
    /\ notified' = [notified EXCEPT ![FreeSlot] = << >>]
    /\ cancelled' = [cancelled EXCEPT ![FreeSlot] = FALSE]
    /\ log' = << <<"Process monitoring started">> >>
    /\ UNCHANGED <<process_cache, callbacks, ctl>>

start_monitoring ==
    /\ ctl = "idle"
    /\ op' = "start_monitoring"
    /\ call' = NoCall
    /\ IF monitoring
       THEN /\ log' = << >>
            /\ UNCHANGED <<monitor, ctl, locals, cancelled>>
       ELSE /\ \E t \in Threads : ~Alive(t)
            /\ monitoring' = TRUE
            /\ stop_event' = FALSE
            /\ monitor_thread' = FreeSlot
            /\ pc' = [pc EXCEPT ![FreeSlot] = "while"]
            /\ processes' = [processes EXCEPT ![FreeSlot] = << >>]
            /\ it' = [it EXCEPT ![FreeSlot] = 0]
            /\ notified' = [notified EXCEPT ![FreeSlot] = << >>]
            /\ cancelled' = [cancelled EXCEPT ![FreeSlot] = FALSE]
            /\ log' = << <<"Process monitoring started">> >>
            /\ UNCHANGED <<process_cache, callbacks, ctl>>

\* stop_monitoring() without its `if not self.monitoring: return`.
stop_monitoring_unguarded ==
    /\ ctl = "idle"
    /\ op' = "stop_monitoring"
    /\ call' = NoCall
    /\ monitoring' = FALSE
    /\ stop_event' = TRUE
    /\ cancelled' = [t \in Threads |->
                       cancelled[t] \/ (t = monitor_thread /\ Alive(t))]
    /\ IF monitor_thread # NoThread
       THEN ctl' = "join" /\ log' = << >>
       ELSE ctl' = "idle" /\ log' = << <<"Process monitoring stopped">> >>
    /\ UNCHANGED <<monitor_thread, process_cache, callbacks, locals>>

\* stop_monitoring() up to the join: lines 118-123.
stop_monitoring ==
    /\ ctl = "idle"
    /\ op' = "stop_monitoring"
    /\ call' = NoCall
    /\ IF ~monitoring
       THEN /\ log' = << >>
            /\ UNCHANGED <<monitor, ctl, locals, cancelled>>
       ELSE /\ monitoring' = FALSE
            /\ stop_event' = TRUE
            /\ cancelled' = [t \in Threads |->
                               cancelled[t] \/ (t = monitor_thread /\ Alive(t))]
            /\ IF monitor_thread # NoThread
               THEN ctl' = "join" /\ log' = << >>
               ELSE ctl' = "idle" /\ log' = << <<"Process monitoring stopped">> >>
            /\ UNCHANGED <<monitor_thread, process_cache, callbacks, locals>>

\* monitor_thread.join(timeout=2) returns because the thread has finished.
join_finished ==
    /\ ctl = "join"
    /\ pc[monitor_thread] = "exit"
    /\ ctl' = "idle"
    /\ op' = "-"
    /\ call' = NoCall
    /\ log' = << <<"Process monitoring stopped">> >>
    /\ UNCHANGED <<monitor, locals, cancelled>>

\* The positions a polling thread can stay at for longer than the join
\* waits: inside the host enumeration, inside a handler, in time.sleep (the
\* interval is configurable).  The other steps take no time to speak of.
SlowSteps == {"get", "call", "sleep", "except"}

\* A join that kills the thread when the two seconds are over.
join_timeout_kill ==
    /\ ctl = "join"
    /\ pc[monitor_thread] \in SlowSteps
    /\ ctl' = "idle"
    /\ pc' = [pc EXCEPT ![monitor_thread] = "exit"]
    /\ op' = "-"
    /\ call' = NoCall
    /\ log' = << <<"Process monitoring stopped">> >>
    /\ UNCHANGED <<monitor, processes, it, notified, cancelled>>

\* monitor_thread.join(timeout=2) returns because the two seconds are over;
\* the thread is left as it is.
join_timeout ==
    /\ ctl = "join"
    /\ pc[monitor_thread] \in SlowSteps
    /\ ctl' = "idle"
    /\ op' = "-"
    /\ call' = NoCall
    /\ log' = << <<"Process monitoring stopped">> >>
    /\ UNCHANGED <<monitor, locals, cancelled>>

----------------------------------------------------------------------------
\* _monitor_loop, one polling thread t

\* `while not self.stop_event.is_set()`: leave the loop, or enter the try body.
loop_test(t) ==
    /\ pc[t] = "while"
    /\ pc' = [pc EXCEPT ![t] = IF stop_event THEN "exit" ELSE "get"]
    /\ op' = "-"
    /\ call' = NoCall
    /\ log' = << >>
    /\ UNCHANGED <<monitor, ctl, processes, it, notified, cancelled>>

\* A loop that dispatches the snapshot before the diff has run.
enumerate_dispatch_first(t, Listings) ==
    /\ pc[t] = "get"
    /\ \E listing \in Listings :
          processes' = [processes EXCEPT ![t] = get_processes(listing)]
    /\ pc' = [pc EXCEPT ![t] = "for"]
    /\ op' = "-"
    /\ call' = NoCall
    /\ log' = << >>
    /\ UNCHANGED <<monitor, ctl, it, notified, cancelled>>

\* `processes = self.get_processes()` returns a snapshot of what the host lists.
enumerate(t, Listings) ==
    /\ pc[t] = "get"
    /\ \E listing \in Listings :
          processes' = [processes EXCEPT ![t] = get_processes(listing)]
    /\ pc' = [pc EXCEPT ![t] = "detect"]
    /\ op' = "-"
    /\ call' = NoCall
    /\ log' = << >>
    /\ UNCHANGED <<monitor, ctl, it, notified, cancelled>>

\* A loop without the outer try: the exception ends the thread.
enumerate_fail_fatal(t) ==
    /\ pc[t] = "get"
    /\ pc' = [pc EXCEPT ![t] = "exit"]
    /\ op' = "-"
    /\ call' = NoCall
    /\ log' = << >>
    /\ UNCHANGED <<monitor, ctl, processes, it, notified, cancelled>>

\* get_processes() raises (process_iter fails outside the per-process try):
\* `except Exception` logs the error.
enumerate_fail(t) ==
    /\ pc[t] = "get"
    /\ pc' = [pc EXCEPT ![t] = "except"]
    /\ op' = "-"
    /\ call' = NoCall
    /\ log' = << <<"Monitor loop error">> >>
    /\ UNCHANGED <<monitor, ctl, processes, it, notified, cancelled>>

\* `self._detect_changes(processes)`: log the new and the dead pids, then
\* replace the cache; the `for` statement then takes an iterator of the list.
detect_changes(t) ==
    /\ pc[t] = "detect"
    /\ LET current_pids == PidMap(processes[t])
       IN /\ log' = NewLines(process_cache, current_pids)
                    \o DeadLines(process_cache, current_pids)
          /\ process_cache' = current_pids
    /\ pc' = [pc EXCEPT ![t] = "for"]
    /\ it' = [it EXCEPT ![t] = 0]
    /\ op' = "-"
    /\ call' = NoCall
    /\ UNCHANGED <<monitoring, monitor_thread, stop_event, callbacks, ctl,
                   processes, notified, cancelled>>

\* A _detect_changes that replaces the cache and then raises.
detect_fail_after_write(t) ==
    /\ pc[t] = "detect"
    /\ process_cache' = PidMap(processes[t])
    /\ pc' = [pc EXCEPT ![t] = "except"]
    /\ op' = "-"
    /\ call' = NoCall
    /\ log' = << <<"Monitor loop error">> >>
    /\ UNCHANGED <<monitoring, monitor_thread, stop_event, callbacks, ctl,
                   processes, it, notified, cancelled>>

\* _detect_changes raises before its last statement, the cache assignment.
detect_fail(t) ==
    /\ pc[t] = "detect"
    /\ pc' = [pc EXCEPT ![t] = "except"]
    /\ op' = "-"
    /\ call' = NoCall
    /\ log' = << <<"Monitor loop error">> >>
    /\ UNCHANGED <<monitor, ctl, processes, it, notified, cancelled>>

\* A for loop that tests stop_event and breaks.
for_next_cancellable(t) ==
    /\ pc[t] = "for"
    /\ IF it[t] < Len(callbacks) /\ ~stop_event
       THEN /\ it' = [it EXCEPT ![t] = it[t] + 1]
            /\ notified' = [notified EXCEPT
                              ![t] = Append(notified[t],
                                            <<callbacks[it[t] + 1], processes[t]>>)]
            /\ pc' = [pc EXCEPT ![t] = "call"]
       ELSE /\ pc' = [pc EXCEPT ![t] = "sleep"]
            /\ UNCHANGED <<it, notified>>
    /\ op' = "-"
    /\ call' = NoCall
    /\ log' = << >>
    /\ UNCHANGED <<monitor, ctl, processes, cancelled>>

\* One step of `for callback in self.callbacks`: the list iterator yields the
\* item at its position in the list as it is now and the callback is called,
\* or the iterator is past the end and the loop body is done.
for_next(t) ==
    /\ pc[t] = "for"
    /\ IF it[t] < Len(callbacks)
       THEN /\ it' = [it EXCEPT ![t] = it[t] + 1]
            /\ notified' = [notified EXCEPT
                              ![t] = Append(notified[t],
                                            <<callbacks[it[t] + 1], processes[t]>>)]
            /\ pc' = [pc EXCEPT ![t] = "call"]
       ELSE /\ pc' = [pc EXCEPT ![t] = "sleep"]
            /\ UNCHANGED <<it, notified>>
    /\ op' = "-"
    /\ call' = NoCall
    /\ log' = << >>
    /\ UNCHANGED <<monitor, ctl, processes, cancelled>>

\* The handler thread t is inside of.
Running(t) == notified[t][Len(notified[t])][1]

\* callback(processes) returns.
callback_return(t) ==
    /\ pc[t] = "call"
    /\ Running(t) \notin Raising
    /\ pc' = [pc EXCEPT ![t] = "for"]
    /\ op' = "-"
    /\ call' = NoCall
    /\ log' = << >>
    /\ UNCHANGED <<monitor, ctl, processes, it, notified, cancelled>>

\* A loop without the inner try: the handler's exception reaches the outer
\* except clause and ends the dispatch.
callback_raise_abort(t) ==
    /\ pc[t] = "call"
    /\ Running(t) \in Raising
    /\ pc' = [pc EXCEPT ![t] = "except"]
    /\ op' = "-"
    /\ call' = NoCall
    /\ log' = << <<"Monitor loop error">> >>
    /\ UNCHANGED <<monitor, ctl, processes, it, notified, cancelled>>

\* callback(processes) raises an Exception: logged, the for loop goes on.
callback_raise(t) ==
    /\ pc[t] = "call"
    /\ Running(t) \in Raising
    /\ pc' = [pc EXCEPT ![t] = "for"]
    /\ op' = "-"
    /\ call' = NoCall
    /\ log' = << <<"Callback error">> >>
    /\ UNCHANGED <<monitor, ctl, processes, it, notified, cancelled>>

\* time.sleep(self.update_interval) is over, at line 141 or in the except
\* clause at line 144; the cycle's locals are dead from here on.
sleep(t) ==
    /\ pc[t] \in {"sleep", "except"}
    /\ pc' = [pc EXCEPT ![t] = "while"]
    /\ processes' = [processes EXCEPT ![t] = << >>]
    /\ it' = [it EXCEPT ![t] = 0]
    /\ notified' = [notified EXCEPT ![t] = << >>]
    /\ op' = "-"
    /\ call' = NoCall
    /\ log' = << >>
    /\ UNCHANGED <<monitor, ctl, cancelled>>

monitor_loop(t, Listings) ==
    \/ loop_test(t)
    \/ enumerate(t, Listings)
    \/ enumerate_fail(t)
    \/ detect_changes(t)
    \/ detect_fail(t)
    \/ for_next(t)
    \/ callback_return(t)
    \/ callback_raise(t)
    \/ sleep(t)

----------------------------------------------------------------------------
\* Calls on the monitor from outside the loop

\* A get_processes() that also stores what it read in the cache.
get_processes_call_caching(Listings) ==
    /\ \E listing \in Listings :
          /\ call' = [fn |-> "get_processes", arg |-> << >>, host |-> listing,
                      did |-> <<"process_iter">>, wrote |-> << >>,
                      ret |-> <<"return", get_processes(listing)>>]
          /\ process_cache' = PidMap(get_processes(listing))
    /\ op' = "-"
    /\ log' = << >>
    /\ UNCHANGED <<monitoring, monitor_thread, stop_event, callbacks,
                   ctl, locals, cancelled>>

\* A caller's get_processes()
get_processes_call(Listings) ==
    /\ \E listing \in Listings :
          call' = [fn |-> "get_processes", arg |-> << >>, host |-> listing,
                   did |-> <<"process_iter">>, wrote |-> << >>,
                   ret |-> <<"return", get_processes(listing)>>]
    /\ op' = "-"
    /\ log' = << >>
    /\ UNCHANGED <<monitor, ctl, locals, cancelled>>

\* A caller's get_process_by_name(name)
get_process_by_name_call(Listings, names) ==
    /\ \E listing \in Listings : \E name \in names :
          call' = [fn |-> "get_process_by_name", arg |-> <<name>>,
                   host |-> listing, did |-> <<"process_iter">>,
                   wrote |-> << >>,
                   ret |-> <<"return", get_process_by_name(listing, name)>>]
    /\ op' = "-"
    /\ log' = << >>
    /\ UNCHANGED <<monitor, ctl, locals, cancelled>>

\* The host operations of kill_process, in the order it performs them: the
\* last one is the proc.name() inside the log line.
KillSteps == <<"Process", "terminate", "wait", "name">>
\* What the host answers to them, up to the first that raises.  After
\* wait() has seen the process exit, name() asks about a process that is
\* gone: it raises NoSuchProcess, unless the host can still answer.
KillRuns ==
    {<<"NoSuchProcess">>,
     <<"ok", "NoSuchProcess">>, <<"ok", "AccessDenied">>,
     <<"ok", "ok", "TimeoutExpired">>,
     <<"ok", "ok", "ok", "NoSuchProcess">>, <<"ok", "ok", "ok", "ok">>}
\* except (psutil.NoSuchProcess, psutil.AccessDenied, psutil.TimeoutExpired)
Caught == {"NoSuchProcess", "AccessDenied", "TimeoutExpired"}

\* A kill_process that reports a process still running after the wait as
\* terminated.
KillReturn_optimistic(run) ==
    IF run[Len(run)] \in {"ok", "TimeoutExpired"} THEN <<"return", TRUE>>
    ELSE <<"return", FALSE>>

\* What kill_process gives back after the host answered `run`.
KillReturn(run) ==
    IF run[Len(run)] = "ok" THEN <<"return", TRUE>>
    ELSE IF run[Len(run)] \in Caught THEN <<"return", FALSE>>
    ELSE <<"raise", run[Len(run)]>>

\* kill_process(pid)
kill_process(pids) ==
    /\ \E pid \in pids : \E run \in KillRuns :
          /\ call' = [fn |-> "kill_process", arg |-> <<pid>>, host |-> run,
                      did |-> SubSeq(KillSteps, 1, Len(run)), wrote |-> << >>,
                      ret |-> KillReturn(run)]
          /\ log' = IF run[Len(run)] = "ok"
                    THEN << <<"Process", pid, "terminated">> >>
                    ELSE IF run[Len(run)] \in Caught
                    THEN << <<"Failed to terminate process", pid, run[Len(run)]>> >>
                    ELSE << >>
    /\ op' = "-"
    /\ UNCHANGED <<monitor, ctl, locals, cancelled>>

\* What the host answers to open(filename, 'w') and to json.dump, up to the
\* first that raises.
SaveRuns == {<<"ok", "ok">>, <<"OSError">>, <<"ok", "OSError">>}
\* The file name a caller passes to save_snapshot.
Filename == "snapshot.json"

\* A save_snapshot that logs a failed write and returns.
save_snapshot_swallow(Listings) ==
    /\ \E listing \in Listings : \E run \in SaveRuns :
          /\ call' = [fn |-> "save_snapshot", arg |-> <<Filename>>,
                      host |-> [listing |-> listing, io |-> run],
                      did |-> <<"process_iter">>
                                 \o SubSeq(<<"open", "dump">>, 1, Len(run)),
                      wrote |-> IF run = <<"ok", "ok">>
                                THEN <<[processes |-> get_processes(listing)]>>
                                ELSE << >>,
                      ret |-> <<"return", None>>]
          /\ log' = IF run = <<"ok", "ok">>
                    THEN << <<"Snapshot saved", Filename>> >>
                    ELSE << <<"Snapshot failed", Filename>> >>
    /\ op' = "-"
    /\ UNCHANGED <<monitor, ctl, locals, cancelled>>

\* save_snapshot(filename): the document holds to_dict() of every record of
\* one get_processes(); an exception of open or json.dump is not caught.
save_snapshot(Listings) ==
    /\ \E listing \in Listings : \E run \in SaveRuns :
          /\ call' = [fn |-> "save_snapshot", arg |-> <<Filename>>,
                      host |-> [listing |-> listing, io |-> run],
                      did |-> <<"process_iter">>
                                 \o SubSeq(<<"open", "dump">>, 1, Len(run)),
                      wrote |-> IF run = <<"ok", "ok">>
                                THEN <<[processes |-> get_processes(listing)]>>
                                ELSE << >>,
                      ret |-> IF run = <<"ok", "ok">> THEN <<"return", None>>
                              ELSE <<"raise", run[Len(run)]>>]
          /\ log' = IF run = <<"ok", "ok">>
                    THEN << <<"Snapshot saved", Filename>> >>
                    ELSE << >>
    /\ op' = "-"
    /\ UNCHANGED <<monitor, ctl, locals, cancelled>>

----------------------------------------------------------------------------
Next ==
    \/ add_callback
    \/ remove_callback
    \/ start_monitoring
    \/ stop_monitoring
    \/ join_finished
    \/ join_timeout
    \/ \E t \in Threads : monitor_loop(t, NarrowListings)

\* The monitor in every interleaving of its callers and its polling threads,
\* on a host that only ever runs process 1.
Spec == Init /\ [][Next]_vars

----------------------------------------------------------------------------
\* The callback lists add_callback can build.
Registries == UNION {[1..n -> Handlers] : n \in 0..MaxCallbacks}

\* One polling thread running cycles over every host listing: the state after
\* some add_callback() calls and start_monitoring(), and no caller since.
CycleInit ==
    /\ monitoring = TRUE
    /\ monitor_thread = 1
    /\ stop_event = FALSE
    /\ process_cache = << >>
    /\ callbacks \in Registries
    /\ ctl = "idle"
    /\ pc = [t \in Threads |-> IF t = 1 THEN "while" ELSE "exit"]
    /\ processes = [t \in Threads |-> << >>]
    /\ it = [t \in Threads |-> 0]
    /\ notified = [t \in Threads |-> << >>]
    /\ cancelled = [t \in Threads |-> FALSE]
    /\ op = "start_monitoring"
    /\ log = << <<"Process monitoring started">> >>
    /\ call = NoCall

CycleNext == monitor_loop(1, HostListings)

CycleSpec == CycleInit /\ [][CycleNext]_vars

----------------------------------------------------------------------------
\* The monitor with every one of its operations called by the application,
\* on a host that only runs process 1 and where every join() ends because
\* the thread ends.

ApiNext ==
    \/ add_callback
    \/ remove_callback
    \/ start_monitoring
    \/ stop_monitoring
    \/ join_finished
    \/ \E t \in Threads : monitor_loop(t, NarrowListings)
    \/ get_processes_call(NarrowListings)
    \/ get_process_by_name_call(NarrowListings, {"a"})
    \/ kill_process({1})
    \/ save_snapshot(NarrowListings)

ApiSpec == Init /\ [][ApiNext]_vars

\* The calls that read the host, on a freshly constructed monitor and on
\* every host record.
CallNext ==
    \/ get_processes_call(FullListings \cup TwoListings)
    \/ get_process_by_name_call(TwoListings, Terms)
    \/ kill_process(Pids)
    \/ save_snapshot(TwoListings)

CallSpec == Init /\ [][CallNext]_vars

----------------------------------------------------------------------------
\* What the scheduler guarantees: a join(timeout=2) returns, and a polling
\* thread that is not inside a handler takes its next step.  A handler may
\* never return, so callback_return and callback_raise are not fair.
Fairness ==
    /\ WF_vars(join_finished \/ join_timeout)
    /\ \A t \in Threads :
          WF_vars(\/ loop_test(t)
                  \/ enumerate(t, NarrowListings)
                  \/ enumerate_fail(t)
                  \/ detect_changes(t)
                  \/ detect_fail(t)
                  \/ for_next(t)
                  \/ sleep(t))

FairSpec == Spec /\ Fairness

----------------------------------------------------------------------------
\* Properties

LiveThreads == {t \in Threads : Alive(t)}

\* The handlers called so far in thread t's cycle, in call order.
Called(t) == [i \in 1..Len(notified[t]) |-> notified[t][i][1]]

\* C1: in every reachable state at most one polling thread is alive.
C1_OnePollingContext == Cardinality(LiveThreads) <= 1

\* C2: a start_monitoring() call made while monitoring is set changes nothing
\* (no new thread, stop_event and monitoring untouched, nothing logged); a
\* call made while it is clear adds exactly one live thread.
C2_StartIdempotent ==
    [][op' = "start_monitoring" =>
          IF monitoring
          THEN /\ UNCHANGED <<monitor, ctl, locals, cancelled>>
               /\ log' = << >>
          ELSE /\ monitoring'
               /\ monitor_thread' \notin LiveThreads
               /\ {t \in Threads : pc'[t] # "exit"} = LiveThreads \cup {monitor_thread'}]_vars

\* A start_monitoring() that found the monitor running has just returned,
\* and one polling thread is alive.
C2_Witness ==
    /\ op = "start_monitoring"
    /\ log = << >>
    /\ monitoring
    /\ Cardinality(LiveThreads) = 1

\* C3: a stop_monitoring() call made while monitoring is clear changes
\* nothing: stop_event, monitoring, cache, callback list and every thread
\* stay as they are, the caller does not join, nothing is logged.
C3_StopNoop ==
    [][(op' = "stop_monitoring" /\ ~monitoring) =>
          /\ UNCHANGED <<monitor, ctl, locals, cancelled>>
          /\ log' = << >>]_vars

\* A second stop_monitoring() in a row has just returned, with a cache and
\* a callback list to preserve.
C3_Witness ==
    /\ op = "stop_monitoring"
    /\ log = << >>
    /\ ctl = "idle"
    /\ ~monitoring
    /\ monitor_thread # NoThread
    /\ process_cache # << >>
    /\ callbacks # << >>

\* C4: a stop_monitoring() that waits in join always gets out of it, also
\* when the polling thread never finishes; it returns with monitoring clear
\* and leaves the polling thread where it is.
C4_StopReturns ==
    /\ (ctl = "join") ~> (ctl = "idle")
    /\ [][(ctl = "join" /\ ctl' = "idle") =>
             /\ ~monitoring'
             /\ UNCHANGED <<locals, stop_event>>]_vars

\* stop_monitoring() has returned from a join that timed out: the polling
\* thread is still inside a handler.
C4_Witness ==
    /\ ctl = "idle"
    /\ ~monitoring
    /\ log = << <<"Process monitoring stopped">> >>
    /\ monitor_thread # NoThread
    /\ pc[monitor_thread] = "call"

\* C5: a polling thread that stop_monitoring() has signalled begins no
\* further cycle: at its next loop test it leaves the loop.
C5_NoCycleAfterStop ==
    [][\A t \in Threads :
          (cancelled[t] /\ pc[t] = "while") => pc'[t] \in {"while", "exit"}]_vars

\* C6: stop_monitoring() and its join leave every polling thread's position
\* and locals and the cache alone, and with stop_event set a cycle goes on
\* as without it: get -> detect (cache replaced) -> every position of the
\* callback list -> sleep; stop_event is read at the loop test only.
C6_CycleNotInterrupted ==
    [][/\ (op' = "stop_monitoring" \/ ctl' # ctl) =>
             UNCHANGED <<locals, process_cache>>
       /\ \A t \in Threads : (stop_event /\ pc'[t] # pc[t]) =>
             /\ pc[t] = "get" => pc'[t] \in {"detect", "except"}
             /\ pc[t] = "detect" =>
                   \/ pc'[t] = "except"
                   \/ pc'[t] = "for" /\ process_cache' = PidMap(processes[t])
             /\ pc[t] = "for" =>
                   IF it[t] < Len(callbacks)
                   THEN /\ pc'[t] = "call"
                        /\ notified'[t] = Append(notified[t],
                                                 <<callbacks[it[t] + 1], processes[t]>>)
                   ELSE pc'[t] = "sleep"
             /\ pc[t] = "call" => pc'[t] = "for"
             /\ pc'[t] = "exit" => pc[t] = "while"]_vars

\* The only polling thread has run its diff after stop_monitoring() set
\* stop_event, and is about to dispatch.
C6_Witness ==
    /\ stop_event
    /\ ~monitoring
    /\ ctl = "join"
    /\ callbacks # << >>
    /\ \E t \in Threads :
          /\ t = monitor_thread
          /\ pc[t] = "for"
          /\ it[t] = 0
          /\ \A u \in Threads \ {t} : pc[u] = "exit"
    /\ log = << <<"New process", "a", 1>> >>

\* The pids of a snapshot.
Ids(S) == {S[i].pid : i \in 1..Len(S)}

\* How many of the lines are this line.
Count(lines, line) == Cardinality({i \in 1..Len(lines) : lines[i] = line})

\* C7: the diff step of a cycle, for cache C and snapshot S, logs exactly one
\* "New process" line per pid of S not in C, exactly one "Process terminated"
\* line, with the name C holds, per pid of C not in S, no line for any other
\* pid, and leaves the cache mapping each pid of S to its record in S.
C7_DiffCorrect ==
    [][\A t \in Threads : (pc[t] = "detect" /\ pc'[t] = "for") =>
          LET C == process_cache
              S == processes[t]
          IN /\ \A i \in 1..Len(S) : S[i].pid \notin DOMAIN C =>
                   Count(log', <<"New process", S[i].name, S[i].pid>>) = 1
             /\ \A p \in DOMAIN C \ Ids(S) :
                   Count(log', <<"Process terminated", C[p].name, p>>) = 1
             /\ \A j \in 1..Len(log') : log'[j][3] \notin DOMAIN C \cap Ids(S)
             /\ Len(log') = Cardinality(Ids(S) \ DOMAIN C)
                            + Cardinality(DOMAIN C \ Ids(S))
             /\ DOMAIN process_cache' = Ids(S)
             /\ \A i \in 1..Len(S) : process_cache'[S[i].pid] = S[i]]_vars

\* The diff step has just run on a cache {1, 2} and a snapshot {2, 3}:
\* pid 3 appeared, pid 1 disappeared under its cached name.
C7_Witness ==
    /\ pc[1] = "for"
    /\ it[1] = 0
    /\ log = << <<"New process", "b", 3>>, <<"Process terminated", "a", 1>> >>
    /\ DOMAIN process_cache = {2, 3}

\* C8: a handler that raises does not end the dispatch: a cycle is in the
\* except clause only without having called any handler, and a cycle whose
\* enumeration and diff succeeded reaches its sleep having called every
\* handler of the callback list exactly once, in list order, wherever in
\* the list the raising handler is.
C8_SubscriberIsolation ==
    \A t \in Threads :
       /\ pc[t] = "except" => notified[t] = << >>
       /\ pc[t] = "sleep" => Called(t) = callbacks

\* A cycle is over in which "A" raised and "B", registered after it, was
\* called.
C8_Witness ==
    /\ pc[1] = "sleep"
    /\ callbacks = <<"A", "B">>
    /\ Called(1) = <<"A", "B">>

\* C9: a thread enters its dispatch only through the diff step, which has
\* replaced the cache by the mapping of the thread's snapshot; each call
\* takes the handler at the next position of the callback list and passes
\* that same snapshot; the sleep follows the dispatch.
C9_CycleOrder ==
    [][\A t \in Threads : pc'[t] # pc[t] =>
          /\ pc'[t] = "detect" => pc[t] = "get"
          /\ pc'[t] = "for" =>
                \/ pc[t] = "call" /\ UNCHANGED <<processes, it, notified>>
                \/ /\ pc[t] = "detect"
                   /\ process_cache' = PidMap(processes'[t])
                   /\ processes'[t] = processes[t]
                   /\ it'[t] = 0
                   /\ notified'[t] = << >>
          /\ pc'[t] = "call" =>
                /\ pc[t] = "for"
                /\ it'[t] = it[t] + 1
                /\ notified'[t] = Append(notified[t],
                                         <<callbacks[it'[t]], processes[t]>>)
                /\ processes'[t] = processes[t]
          /\ pc'[t] = "sleep" => pc[t] = "for" /\ it[t] >= Len(callbacks)]_vars

\* The second handler of a cycle is running: both got the snapshot the
\* cache was built from.
C9_Witness ==
    \E t \in Threads :
       /\ pc[t] = "call"
       /\ Len(callbacks) = 2
       /\ processes[t] # << >>
       /\ notified[t] = <<<<callbacks[1], processes[t]>>, <<callbacks[2], processes[t]>>>>
       /\ process_cache = PidMap(processes[t])

\* C10: a failure of the enumeration or of the diff takes the thread to the
\* sleep of the except clause and from there back to the loop test; a thread
\* leaves the loop at the loop test only, and only with stop_event set.
C10_BadCycleNotFatal ==
    /\ \A t \in Threads : (pc[t] = "except") ~> (pc[t] \in {"get", "exit"})
    /\ [][\A t \in Threads : pc'[t] # pc[t] =>
             /\ pc[t] = "except" => pc'[t] = "while"
             /\ pc'[t] = "exit" => pc[t] = "while" /\ stop_event
             /\ (pc[t] = "while" /\ ~stop_event) => pc'[t] = "get"]_vars

\* A thread whose previous cycle failed has begun the next one.
C10_Witness ==
    \E t \in Threads :
       /\ pc[t] = "get"
       /\ ~stop_event
       /\ log = << <<"Monitor loop error">> >>
----------------------------------------------------------------------------
\* C11: kill_process(pid) never raises to its caller, and it returns True
\* only if wait() saw the process exit.  When the pid does not exist, when
\* terminate() is denied or finds the process gone, or when the wait times
\* out, it returns False; it asks the host for each operation at most once
\* (no retry) and never for a forced kill.
C11_TerminateNeverRaises ==
    [][call'.fn = "kill_process" =>
          LET run == call'.host
              did == call'.did
          IN /\ call'.ret[1] = "return"
             /\ call'.ret[2] \in BOOLEAN
             /\ call'.ret[2] => Len(run) >= 3 /\ run[3] = "ok"
             /\ (Len(run) <= 3 /\ run[Len(run)] # "ok")
                   => call'.ret = <<"return", FALSE>>
             /\ \A i \in 1..Len(did) :
                   /\ did[i] \in {"Process", "terminate", "wait", "name"}
                   /\ \A j \in 1..Len(did) : did[i] = did[j] => i = j]_vars

\* kill_process has returned False because the wait timed out.
C11_Witness ==
    /\ call.fn = "kill_process"
    /\ call.host = <<"ok", "ok", "TimeoutExpired">>
    /\ call.did = <<"Process", "terminate", "wait">>
    /\ call.ret = <<"return", FALSE>>

\* C17: whenever the target exists, terminate() is accepted and wait() sees
\* the process exit, kill_process returns True.
C17_SuccessReturnsTrue ==
    [][(/\ call'.fn = "kill_process"
        /\ Len(call'.host) >= 3
        /\ \A i \in 1..3 : call'.host[i] = "ok")
          => call'.ret = <<"return", TRUE>>]_vars

\* C12: the cache is empty at construction and only the diff step of a
\* polling cycle writes it, with the snapshot of that cycle.  get_processes,
\* get_process_by_name, kill_process, save_snapshot, add_callback,
\* remove_callback, start_monitoring and stop_monitoring leave it as it is,
\* so it survives a stop and a restart.
C12_CacheWrittenOnlyByDiff ==
    /\ process_cache = << >>
    /\ [][/\ process_cache' # process_cache =>
                \E t \in Threads : /\ pc[t] = "detect"
                                   /\ pc'[t] = "for"
                                   /\ process_cache' = PidMap(processes[t])
          /\ (\/ call'.fn \in {"get_processes", "get_process_by_name",
                               "kill_process", "save_snapshot"}
              \/ op' \in {"start_monitoring", "stop_monitoring"}
              \/ callbacks' # callbacks)
                => process_cache' = process_cache]_vars

\* start_monitoring() has just restarted the monitor, and the cache still
\* holds the snapshot of a cycle before the stop.
C12_Witness ==
    /\ op = "start_monitoring"
    /\ log = << <<"Process monitoring started">> >>
    /\ monitoring
    /\ pc[monitor_thread] = "while"
    /\ process_cache # << >>

\* C13: save_snapshot enumerates the processes exactly once.  When open or
\* json.dump fails the exception reaches the caller: the call does not
\* return, logs no success, and tries neither operation again.  With or
\* without a failure the call leaves the lifecycle state, the cache, the
\* callback list and the polling thread as they are.
C13_SaveFailureSurfaced ==
    [][call'.fn = "save_snapshot" =>
          /\ Count(call'.did, "process_iter") = 1
          /\ Count(call'.did, "open") <= 1
          /\ Count(call'.did, "dump") <= 1
          /\ call'.host.io # <<"ok", "ok">> =>
                /\ call'.ret = <<"raise", "OSError">>
                /\ log' = << >>
                /\ call'.wrote = << >>
          /\ call'.host.io = <<"ok", "ok">> =>
                /\ call'.ret = <<"return", None>>
                /\ call'.wrote = <<[processes |-> get_processes(call'.host.listing)]>>
          /\ UNCHANGED <<monitor, ctl, locals, cancelled>>]_vars

\* A save has failed while a polling thread was in the middle of a dispatch.
C13_Witness ==
    /\ call.fn = "save_snapshot"
    /\ call.ret = <<"raise", "OSError">>
    /\ monitoring
    /\ pc[monitor_thread] = "call"
    /\ process_cache # << >>
    /\ callbacks # << >>

\* C14: get_processes() returns a list whatever happens to single processes:
\* a listed process whose query raises NoSuchProcess or AccessDenied is not
\* in the result, and every other listed process is in it exactly once.
C14_EnumerateSkipsFaulty ==
    [][call'.fn = "get_processes" =>
          LET listing == call'.host
              result == call'.ret[2]
          IN /\ call'.ret[1] = "return"
             /\ \A i \in 1..Len(listing) :
                   Cardinality({j \in 1..Len(result) :
                                   result[j].pid = listing[i].pid})
                      = IF listing[i].fault = "ok" THEN 1 ELSE 0
             /\ Ids(result) \subseteq Ids(listing)]_vars

\* get_processes() has skipped process 1, which vanished, and returned
\* process 2, which was listed after it.
C14_Witness ==
    /\ call.fn = "get_processes"
    /\ Len(call.host) = 2
    /\ call.host[1].fault = "NoSuchProcess"
    /\ call.host[2].fault = "ok"
    /\ call.ret = <<"return", <<[pid |-> 2, name |-> "b"]>> >>

\* C15: in the record get_processes() builds from a host record, a missing
\* name gives "Unknown", a missing status "unknown", a missing command line
\* the empty list, a missing cpu, memory or creation time 0.0, and every
\* attribute that is present is copied as it is.
C15_Defaulting ==
    [][(call'.fn = "get_processes" /\ call'.host \in FullListings) =>
          LET info == call'.host[1]
              record == call'.ret[2][1]
          IN /\ record.pid = info.pid
             /\ \A attr \in {"name", "status", "cpu_percent",
                             "memory_percent", "create_time"} :
                   record[attr] = IF info[attr] = None THEN Default[attr]
                                  ELSE info[attr]
             /\ record.cmdline = IF info.cmdline = NoCmdline THEN << >>
                                 ELSE info.cmdline]_vars

\* C15, amended: a name or a status that is missing or empty gives "Unknown"
\* or "unknown"; a missing command line gives the empty list; a missing cpu,
\* memory or creation time gives 0.0; every other attribute value is copied
\* as it is.
C15_DefaultingOfEmpty ==
    [][(call'.fn = "get_processes" /\ call'.host \in FullListings) =>
          LET info == call'.host[1]
              record == call'.ret[2][1]
          IN /\ record.pid = info.pid
             /\ \A attr \in {"name", "status"} :
                   record[attr] = IF info[attr] \in {None, ""}
                                  THEN Default[attr] ELSE info[attr]
             /\ \A attr \in {"cpu_percent", "memory_percent", "create_time"} :
                   record[attr] = IF info[attr] = None THEN "0.0"
                                  ELSE info[attr]
             /\ record.cmdline = IF info.cmdline = NoCmdline THEN << >>
                                 ELSE info.cmdline]_vars

\* get_processes() has built a record from a host record with an empty
\* name, no status, a cpu value and a command line.
C15_Witness ==
    /\ call.fn = "get_processes"
    /\ call.host \in FullListings
    /\ call.host[1].name = ""
    /\ call.host[1].status = None
    /\ call.host[1].cpu_percent = "1.5"
    /\ call.host[1].cmdline = <<"x">>
    /\ call.ret[2][1].name = "Unknown"
    /\ call.ret[2][1].status = "unknown"
    /\ call.ret[2][1].cpu_percent = "1.5"
    /\ call.ret[2][1].cmdline = <<"x">>

\* C16: get_process_by_name(name) returns, in the order of one
\* get_processes() result, exactly the records whose name contains the term
\* when both are compared in lower case, and it changes nothing in the
\* monitor.
C16_FindByNameFilters ==
    [][call'.fn = "get_process_by_name" =>
          LET all == get_processes(call'.host)
              term == lower(Chars(call'.arg[1]))
              result == call'.ret[2]
              Match(p) ==
                  LET n == lower(Chars(p.name))
                  IN \E off \in 0..(Len(n) - Len(term)) :
                        \A k \in 1..Len(term) : n[off + k] = term[k]
              found == SetToSeq({i \in 1..Len(all) : Match(all[i])})
          IN /\ call'.ret[1] = "return"
             /\ Len(result) = Len(found)
             /\ \A j \in 1..Len(found) : result[j] = all[found[j]]
             /\ Count(call'.did, "process_iter") = 1
             /\ UNCHANGED <<monitor, ctl, locals, cancelled>>]_vars

\* A search for "NK" has returned the process without a name, listed as
\* "Unknown", and left out process "a" listed before it.
C16_Witness ==
    /\ call.fn = "get_process_by_name"
    /\ call.arg = <<"NK">>
    /\ Len(call.host) = 2
    /\ call.host[1].name = "a" /\ call.host[1].fault = "ok"
    /\ call.host[2].name = None /\ call.host[2].fault = "ok"
    /\ call.ret = <<"return", <<[pid |-> 2, name |-> "Unknown"]>> >>

\* C18: a cycle in which get_processes() or _detect_changes() fails leaves
\* the cache as it was when the cycle began and calls no handler: from the
\* loop test up to the failure and through the pause that follows it the
\* cache does not change and no call is recorded.  The cache changes only
\* when a diff step completes, to the snapshot of that cycle, so the next
\* diff is made against the last snapshot that was processed.
C18_FailedCycleChangesNothing ==
    [][\A t \in Threads :
          /\ (pc'[t] \in {"get", "detect", "except"} \/ pc[t] = "except")
                => /\ process_cache' = process_cache
                   /\ notified'[t] = << >>
          /\ process_cache' # process_cache
                => \E u \in Threads :
                      /\ pc[u] = "detect"
                      /\ pc'[u] = "for"
                      /\ process_cache' = PidMap(processes[u])]_vars

\* The diff step has failed on a snapshot that differs from the cache, and
\* the cache still holds the snapshot of an earlier cycle.
C18_Witness ==
    /\ pc[1] = "except"
    /\ log = << <<"Monitor loop error">> >>
    /\ processes[1] # << >>
    /\ process_cache # << >>
    /\ PidMap(processes[1]) # process_cache
    /\ notified[1] = << >>

\* Calls of handler h that the iterator of thread t, standing at position
\* pos of list, has still to make.
C19_ToCome(list, pos, h) ==
    Cardinality({i \in (pos + 1)..Len(list) : list[i] = h})

\* C19: a change of the callback list made while a thread dispatches never
\* makes a handler that stays registered be skipped or called twice: for
\* every handler whose registrations the change does not touch, the calls
\* the dispatch has still to make to it stay the same.
C19_DispatchStable ==
    [][\A t \in Threads :
          (pc[t] \in {"for", "call"} /\ callbacks' # callbacks /\ it'[t] = it[t])
             => \A h \in Handlers :
                   Count(callbacks', h) = Count(callbacks, h)
                      => C19_ToCome(callbacks', it[t], h)
                            = C19_ToCome(callbacks, it[t], h)]_vars

====
